---- MODULE Spec2Model ----
(***************************************************************************)
(* commit-prover: the attestation signing and verification of the backend  *)
(* (apps/backend/src/crypto.ts: the module-level key state, the exported   *)
(* operations that use it, and verifySignedProof), the backend process     *)
(* that serves them (apps/backend/src/index.ts), and the user app that     *)
(* turns an attestation into circuit inputs (apps/user).                   *)
(*                                                                         *)
(* Spec is crypto.ts on its own, its functions called in any order;        *)
(* ServerSpec is the backend process with the sessions of its clients;     *)
(* UserAppSpec is the user app of one browser with the backend behind it.  *)
(* AuthSpec is the backend with one browser session and every outcome of   *)
(* the OAuth callback; AppSpec is the user app's proof generation, one     *)
(* step per await (AppFairSpec: every await settles and is continued);     *)
(* KeyStoreSpec is the browser key store with overlapping calls;           *)
(* JobCardSpec is the applicant's JobCard reading the file the user app    *)
(* wrote (JobCardFairSpec: every await settles and is continued).          *)
(*                                                                         *)
(* Text is modelled as a sequence of one-character strings (a property     *)
(* name is one token), so that JSON.stringify is computed, not assumed.    *)
(* ECDSA over SHA-256 is modelled symbolically: a signature is the term    *)
(* (signer, message, nonce) and verifies under exactly the public key of   *)
(* its signer and exactly its message (no forgery, no hash collision).     *)
(***************************************************************************)
EXTENDS Integers, Sequences, FiniteSets, TLC

\* ------------------------------------------------------------------ bounds
\* Date.now() ranges over 0 .. MaxClock.
MaxClock == 1
\* initializeKeypair is called at most MaxInitCalls times in a behaviour.
MaxInitCalls == 2

\* ------------------------------------------------------------------ values
\* Every record of the model is built by one of the constructors of this
\* section, which lists the fields in the order TLC keeps them (the order in
\* which the names first occur in the module).

\* A JS number: an integer, or one of the non-finite values.
Num(n) == [k |-> "int", v |-> n]
NaN == [k |-> "nan", v |-> 0]
Infinity == [k |-> "inf", v |-> 0]
Undefined == [k |-> "undefined", v |-> 0]

\* What an awaited reply holds in place of a number: nothing while the
\* request is in flight, or the rejection of the promise.
NoReply == [k |-> "pending", v |-> 0]
Rejected == [k |-> "rejected", v |-> 0]

IsFinite(x) == x.k = "int"

\* Key material.  A KeyObject is identified by its type and its keypair, a
\* PEM text by the keypair it encodes and its label.
KeyObject(type, id) == [type |-> type, id |-> id]
Pem(id, label) == [id |-> id, label |-> label]

UndefinedKey == KeyObject("undefined", 0)
PrivateKeyObject(i) == KeyObject("private", i)
PublicKeyObject(i) == KeyObject("public", i)

UnsetPem == Pem(0, "")
UndefinedPem == Pem(0, "undefined")
GarbagePem == Pem(0, "GARBAGE")
PrivatePem(i) == Pem(i, "PRIVATE KEY")
PublicPem(i) == Pem(i, "PUBLIC KEY")

\* A hex text: the bytes its leading pairs of hex digits spell, whether its
\* letter digits are written in upper case, and whether characters that are
\* not hex digits follow.  Texts that differ in any of the three are
\* different strings.
HexText(bytes, upper, junk) == [bytes |-> bytes, upper |-> upper, junk |-> junk]

\* An ECDSA signature: who signed which message, with which randomness.
SignatureTerm(nonce, signer, digest) == [nonce |-> nonce, signer |-> signer, digest |-> digest]

\* The arguments of signCommitStats, the properties of a payload, the payload
\* object (its properties in the order the object holds them) and the
\* SignedProof.
Arguments(username, userId, commitCount, since) ==
    [username |-> username, userId |-> userId, commitCount |-> commitCount, since |-> since]

Fields(username, userId, commitCount, since, timestamp) ==
    [username |-> username, userId |-> userId, commitCount |-> commitCount,
     since |-> since, timestamp |-> timestamp]

PayloadObject(fields, order) == [fields |-> fields, order |-> order]

SignedProof(payload, signature, publicKey) ==
    [payload |-> payload, signature |-> signature, publicKey |-> publicKey]

\* A call of an exported function: how it ended, what it returned, and the
\* arguments it was given.
Call(op, outcome, error, proof, bool, pem, how, args) ==
    [op |-> op, outcome |-> outcome, error |-> error, proof |-> proof,
     bool |-> bool, pem |-> pem, how |-> how, args |-> args]

Outcome(outcome, error, bool) == [outcome |-> outcome, error |-> error, bool |-> bool]

\* process.env.APP_PRIVATE_KEY and process.env.APP_PUBLIC_KEY.
Environment(priv, pub) == [priv |-> priv, pub |-> pub]

\* The session data of express-session (index.ts): the GitHub user the OAuth
\* callback stored, and the session itself.  A field that is undefined is
\* the empty sequence, a field that is set is a sequence of one value.
GithubUser(id, login) == [id |-> id, login |-> login]
SessionData(accessToken, githubUser) == [accessToken |-> accessToken, githubUser |-> githubUser]

\* The JSON body of GitHub's token endpoint (whether its error property is
\* set, and its access_token), and what a request of GET /auth/callback
\* meets: whether the query holds a code, tokenData and userData.
TokenData(error, access_token) == [error |-> error, access_token |-> access_token]
CallbackInput(code, tokenData, userData) ==
    [code |-> code, tokenData |-> tokenData, userData |-> userData]

\* A request of GET /api/stats/commits/proof: the handler's locals username,
\* userId and since, for reference the session the request came with and
\* the session data the handler found, and data.total_count of GitHub's
\* reply once it has arrived.
ProofRequest(username, userId, since, sid, found, data) ==
    [username |-> username, userId |-> userId, since |-> since, sid |-> sid, found |-> found,
     data |-> data]

\* An HTTP response of the backend: its body (an error text, a SignedProof
\* or a public key), its status and route, and the request it answers.
HttpResponse(error, proof, pem, status, route, request) ==
    [error |-> error, proof |-> proof, pem |-> pem, status |-> status,
     route |-> route, request |-> request]

\* The browser key store (apps/user crypto): a key exported as base64 text
\* (of which keypair, in which format), the StoredKeypair kept in
\* localStorage, what getOrCreateKeypair resolves to, and a call of it: where
\* it stands, what getItem gave it, and what it last resolved to.
Base64Key(id, format) == [id |-> id, format |-> format]
StoredKeypair(publicKey, privateKey) == [publicKey |-> publicKey, privateKey |-> privateKey]
KeypairResult(publicKey, privateKey, publicKeyBase64) ==
    [publicKey |-> publicKey, privateKey |-> privateKey, publicKeyBase64 |-> publicKeyBase64]
KeyCall(pc, stored, result) == [pc |-> pc, stored |-> stored, result |-> result]

\* The user app: a ProofData of bb.js (the proof bytes, each 0..255, and the
\* public inputs), and a handleGenerateProof under way: where it stands and
\* the attestation res.json() gave it.
ProofData(proof, publicInputs) == [proof |-> proof, publicInputs |-> publicInputs]
Generation(pc, attestation) == [pc |-> pc, attestation |-> attestation]

\* The proof file: a property of the object JSON.parse gives (absent, or a
\* string with its characters, a number, or an array with its items), the
\* file (its proof and publicInputs properties, and whether its text parses
\* as JSON at all), and a handleFileChange of the applicant app: where it
\* stands, the file chosen, the ProofData given to backend.verifyProof and
\* how verifyProof settled.
JsonField(kind, text) == [kind |-> kind, text |-> text]
ProofFile(proof, publicInputs, parses) ==
    [proof |-> proof, publicInputs |-> publicInputs, parses |-> parses]
Upload(pc, file, proofForVerification, verdict) ==
    [pc |-> pc, file |-> file, proofForVerification |-> proofForVerification,
     verdict |-> verdict]

\* ------------------------------------------------------------ input ranges
Alice == <<"a", "l">>
Quoted == <<"b", "\"">>
ValidSince == <<"2", "0", "2", "4", "-", "0", "9", "-", "0", "1">>
InvalidSince == <<"2", "0", "2", "4", "-", "0", "2", "-", "3", "0">>

\* The calls of signCommitStats explored: the counts at and beyond the ends
\* of the valid range, a login and a date that need care, a second user.
SignInputs ==
    { Arguments(Alice, Num(1), Num(150), ValidSince),
      Arguments(Alice, Num(1), Num(0), ValidSince),
      Arguments(Alice, Num(1), Num(2147483647), ValidSince),
      Arguments(Alice, Num(1), Num(-1), ValidSince),
      Arguments(Alice, Num(1), NaN, ValidSince),
      Arguments(Alice, Num(1), Num(150), InvalidSince),
      Arguments(Quoted, Num(2), Num(150), ValidSince) }

CommitCounts == { a.commitCount : a \in SignInputs }
Sinces == { a.since : a \in SignInputs }

\* Keypairs an operator may supply through the environment, and the
\* keypairs initializeKeypair generates (numbered after them).
EnvKeyIds == {1, 2}
FirstGeneratedId == Cardinality(EnvKeyIds) + 1
GeneratedId(n) == FirstGeneratedId + n

\* The curve of a keypair: generateKeyPairSync is given namedCurve 'P-256',
\* createPrivateKey and createPublicKey take a key on any curve, and the
\* operator's keypair 2 is on secp256k1.
CurveOf(id) == IF id = 2 THEN "secp256k1" ELSE "prime256v1"

\* process.env.APP_PRIVATE_KEY / APP_PUBLIC_KEY as the process finds them.
EnvConfigs ==
    { Environment(UnsetPem, UnsetPem),
      Environment(PrivatePem(1), PublicPem(1)),
      Environment(PrivatePem(1), PublicPem(2)),
      Environment(PrivatePem(1), PrivatePem(1)),
      Environment(PrivatePem(1), GarbagePem),
      Environment(PublicPem(1), PublicPem(1)) }

\* ------------------------------------------------------------ JSON.stringify
\* A property name as JSON.stringify writes it, quotes included: the names
\* are the fixed identifiers of the payload type, so each is kept as one
\* token of the text; values are spelled character by character.
QuotedName(k) == <<k>>

DigitChar(d) == <<"0", "1", "2", "3", "4", "5", "6", "7", "8", "9">>[d + 1]

RECURSIVE DigitsOf(_)
DigitsOf(n) ==
    IF n < 10 THEN <<DigitChar(n)>>
    ELSE DigitsOf(n \div 10) \o <<DigitChar(n % 10)>>

\* Number::toString of an integer.
IntegerToString(n) == IF n < 0 THEN <<"-">> \o DigitsOf(0 - n) ELSE DigitsOf(n)

\* SerializeJSONProperty of a Number: a finite number is its decimal text,
\* NaN and the infinities are the text null.
SerializeJSONNumber(x) ==
    IF IsFinite(x) THEN IntegerToString(x.v) ELSE <<"n", "u", "l", "l">>

RECURSIVE EscapeChars(_)
EscapeChars(s) ==
    IF s = <<>> THEN <<>>
    ELSE (IF Head(s) \in {"\"", "\\"} THEN <<"\\", Head(s)>> ELSE <<Head(s)>>)
         \o EscapeChars(Tail(s))

\* QuoteJSONString.
QuoteJSONString(s) == <<"\"">> \o EscapeChars(s) \o <<"\"">>

SerializeJSONProperty(k, fields) ==
    CASE k = "username" -> QuoteJSONString(fields.username)
      [] k = "userId" -> SerializeJSONNumber(fields.userId)
      [] k = "commitCount" -> SerializeJSONNumber(fields.commitCount)
      [] k = "since" -> QuoteJSONString(fields.since)
      [] k = "timestamp" -> SerializeJSONNumber(fields.timestamp)

RECURSIVE SerializeMembers(_, _)
SerializeMembers(keys, fields) ==
    IF keys = <<>> THEN <<>>
    ELSE QuotedName(Head(keys)) \o <<":">>
         \o SerializeJSONProperty(Head(keys), fields)
         \o (IF Tail(keys) = <<>> THEN <<>> ELSE <<",">>)
         \o SerializeMembers(Tail(keys), fields)

\* JSON.stringify of a payload object: its own properties in the order the
\* object holds them (creation order), with no whitespace.
JSONStringify(obj) == <<"{">> \o SerializeMembers(obj.order, obj.fields) \o <<"}">>

\* ------------------------------------------------------------- hex and ECDSA
\* ECDSA's per-signature randomness.
Nonces == {1, 2}

\* Buffer#toString('hex'): lower-case digits, nothing else.
BufferToHex(bytes) == HexText(bytes, FALSE, FALSE)

\* Buffer.from(text, 'hex'): case-insensitive, and decoding stops at the
\* first character that is not a hex digit.
BufferFromHex(h) == h.bytes

EmptyString == HexText(<<>>, FALSE, FALSE)

\* ECDSA/SHA-256 signature bytes of msg under a private KeyObject.
EcdsaSign(key, msg, nonce) == << SignatureTerm(nonce, key.id, msg) >>

\* ECDSA/SHA-256 verification under a public KeyObject: bytes that are no
\* signature at all are rejected, not an error.
EcdsaVerify(key, msg, bytes) ==
    /\ Len(bytes) = 1
    /\ bytes[1].signer = key.id
    /\ bytes[1].digest = msg

\* crypto.createPrivateKey(pem) accepts a private key only.
CreatePrivateKeyThrows(pem) == pem.label # "PRIVATE KEY"
CreatePrivateKey(pem) == PrivateKeyObject(pem.id)

\* crypto.createPublicKey(pem) accepts a public key, and also a private key,
\* from which it derives the public key.
CreatePublicKeyThrows(pem) == pem.label \notin {"PUBLIC KEY", "PRIVATE KEY"}
CreatePublicKey(pem) == PublicKeyObject(pem.id)

\* publicKey.export({ type: 'spki', format: 'pem' }).
ExportSpkiPem(key) == PublicPem(key.id)

\* -------------------------------------------------------------------- state
VARIABLES
    env,            \* process.env: APP_PRIVATE_KEY and APP_PUBLIC_KEY
    privateKey,     \* crypto.ts: let privateKey
    publicKey,      \* crypto.ts: let publicKey
    publicKeyPem,   \* crypto.ts: let publicKeyPem
    initCalls,      \* number of calls of initializeKeypair so far
    clock,          \* the value Date.now() returns
    issued,         \* the last attestation signCommitStats returned
    ret,            \* the last call of an exported function and its outcome
    phase,          \* index.ts: how far the backend process has come
    sessions,       \* index.ts: the session store, req.session per session id
    pending,        \* index.ts: proof requests that await GitHub's reply
    response,       \* index.ts: the last HTTP response sent
    published,      \* every public key the backend has sent in a response
    signedProof,    \* user app: the signedProof state of App
    error,          \* user app: the error state of App
    circuitInputs,  \* user app: the last input map given to noir.execute
    localStorage,   \* browser: localStorage.getItem('commit-prover-keypair')
    keyCalls,       \* browser: the calls of getOrCreateKeypair, per caller
    loading,        \* user app: the loading state of App
    user,           \* user app: the user state of App
    zkProof,        \* user app: the zkProof state of App
    generatingProof,\* user app: the generatingProof state of App
    generation,     \* user app: the handleGenerateProof under way
    download,       \* user app: the file handleDownloadZkProof last wrote
    status,         \* applicant app: the status state of a JobCard
    upload          \* applicant app: the handleFileChange of that JobCard

keyState == <<privateKey, publicKey, publicKeyPem>>
moduleState == <<env, privateKey, publicKey, publicKeyPem, initCalls, clock, issued, ret>>
keyStore == <<localStorage, keyCalls>>
appState == <<loading, user, zkProof, generatingProof, generation>>
jobCard == <<status, upload, download>>
userApp == <<signedProof, error, circuitInputs, keyStore, appState, jobCard>>
server == <<moduleState, phase, sessions, pending, response, published>>
processState == <<phase, sessions, pending, response, published, userApp>>
vars == <<moduleState, processState>>

CanonicalOrder == <<"username", "userId", "commitCount", "since", "timestamp">>
SortedOrder == <<"commitCount", "since", "timestamp", "userId", "username">>

NoFields == Fields(<<>>, Num(0), Num(0), <<>>, Num(0))
NoPayload == PayloadObject(NoFields, <<>>)
NoProof == SignedProof(NoPayload, EmptyString, UndefinedPem)

NoCall == Call("none", "return", "", NoProof, FALSE, UndefinedPem, "", NoFields)

\* index.ts and the user app before the process exists: crypto.ts on its own.
SessionIds == {1, 2}
EmptySession == SessionData(<<>>, <<>>)
NoRequest == <<>>
NoResponse == HttpResponse("", NoProof, UndefinedPem, 0, "", NoRequest)

\* The callers of getOrCreateKeypair in one browser (components, effects).
Callers == {1, 2, 3}
NoKeyCall == KeyCall("idle", <<>>, <<>>)

NoGeneration == Generation("idle", NoProof)
Absent == JsonField("absent", <<>>)
NoFile == ProofFile(Absent, Absent, FALSE)
NoUpload == Upload("none", NoFile, <<>>, "")

ProcessState(at) ==
    /\ phase = at
    /\ sessions = [s \in SessionIds |-> EmptySession]
    /\ pending = {}
    /\ response = NoResponse
    /\ published = {}
    /\ signedProof = NoProof
    /\ error = ""
    /\ circuitInputs = {}
    /\ localStorage = <<>>
    /\ keyCalls = [c \in Callers |-> NoKeyCall]
    /\ loading = TRUE
    /\ user = <<>>
    /\ zkProof = <<>>
    /\ generatingProof = FALSE
    /\ generation = NoGeneration
    /\ download = <<>>
    /\ status = "idle"
    /\ upload = NoUpload

NoProcess == ProcessState("none")

\* Whether initializeKeypair takes the environment branch.
EnvironmentPath == env.priv # UnsetPem /\ env.pub # UnsetPem

Init ==
    /\ env \in EnvConfigs
    /\ privateKey = UndefinedKey
    /\ publicKey = UndefinedKey
    /\ publicKeyPem = UndefinedPem
    /\ initCalls = 0
    /\ clock = 0
    /\ issued = NoProof
    /\ ret = NoCall
    /\ NoProcess

\* ------------------------------------------------------- initializeKeypair
InitializeKeypair ==
    /\ initCalls < MaxInitCalls
    /\ initCalls' = initCalls + 1
    /\ IF EnvironmentPath
       THEN IF CreatePrivateKeyThrows(env.priv)
            THEN /\ UNCHANGED keyState
                 /\ ret' = Call("initializeKeypair", "throw", "ERR_OSSL", NoProof,
                                FALSE, UndefinedPem, "", NoFields)
            ELSE IF CreatePublicKeyThrows(env.pub)
            THEN /\ privateKey' = CreatePrivateKey(env.priv)
                 /\ UNCHANGED <<publicKey, publicKeyPem>>
                 /\ ret' = Call("initializeKeypair", "throw", "ERR_OSSL", NoProof,
                                FALSE, UndefinedPem, "", NoFields)
            ELSE /\ privateKey' = CreatePrivateKey(env.priv)
                 /\ publicKey' = CreatePublicKey(env.pub)
                 /\ publicKeyPem' = env.pub
                 /\ ret' = Call("initializeKeypair", "return", "", NoProof,
                                FALSE, UndefinedPem, "", NoFields)
       ELSE /\ privateKey' = PrivateKeyObject(GeneratedId(initCalls))
            /\ publicKey' = PublicKeyObject(GeneratedId(initCalls))
            /\ publicKeyPem' = ExportSpkiPem(PublicKeyObject(GeneratedId(initCalls)))
            /\ ret' = Call("initializeKeypair", "return", "", NoProof,
                           FALSE, UndefinedPem, "", NoFields)
    /\ UNCHANGED <<env, clock, issued>>

\* ------------------------------------------------------------ getPublicKey
\* Variant: the key is exported from the KeyObject anew, not returned as stored.
GetPublicKey_Exports ==
    /\ ret' = Call("getPublicKey", "return", "", NoProof, FALSE, ExportSpkiPem(publicKey),
                   "", NoFields)
    /\ UNCHANGED <<env, keyState, initCalls, clock, issued>>

\* Variant: the getter caches a fresh export of the key in publicKeyPem.
GetPublicKey_Caches ==
    /\ publicKeyPem' = ExportSpkiPem(publicKey)
    /\ ret' = Call("getPublicKey", "return", "", NoProof, FALSE, publicKeyPem', "", NoFields)
    /\ UNCHANGED <<env, privateKey, publicKey, initCalls, clock, issued>>

GetPublicKey ==
    /\ ret' = Call("getPublicKey", "return", "", NoProof, FALSE, publicKeyPem, "", NoFields)
    /\ UNCHANGED <<env, keyState, initCalls, clock, issued>>

\* --------------------------------------------------------- signCommitStats
\* const payload = { username, userId, commitCount, since, timestamp: Date.now() }
BuildPayload(username, userId, commitCount, since, now) ==
    PayloadObject(Fields(username, userId, commitCount, since, Num(now)), CanonicalOrder)

\* const message = JSON.stringify(payload)
SignedMessage(payload) == JSONStringify(payload)

\* Variant: a missing key is not rejected.
SignThrows_Never(key) == FALSE

\* Variant: a replay guard, at most one attestation per clock instant.
SignThrows_OncePerInstant(key) ==
    \/ key = UndefinedKey
    \/ (issued # NoProof /\ issued.payload.fields.timestamp = Num(clock))

\* sign.sign(privateKey, 'hex') rejects a missing key.
SignThrows(key) == key = UndefinedKey

\* The value signCommitStats returns when nothing throws.
SignedProofOf(payload, nonce) ==
    SignedProof(payload,
                BufferToHex(EcdsaSign(privateKey, SignedMessage(payload), nonce)),
                publicKeyPem)

SignCommitStats(username, userId, commitCount, since) ==
    /\ LET args == Arguments(username, userId, commitCount, since)
           payload == BuildPayload(username, userId, commitCount, since, clock)
       IN IF SignThrows(privateKey)
          THEN /\ ret' = Call("signCommitStats", "throw", "ERR_CRYPTO_SIGN_KEY_REQUIRED",
                              NoProof, FALSE, UndefinedPem, "", args)
               /\ UNCHANGED issued
          ELSE \E nonce \in Nonces :
                 /\ ret' = Call("signCommitStats", "return", "",
                                SignedProofOf(payload, nonce), FALSE, UndefinedPem, "", args)
                 /\ issued' = SignedProofOf(payload, nonce)
    /\ UNCHANGED <<env, keyState, initCalls, clock>>

\* The clock advances between calls.
Tick ==
    /\ clock < MaxClock
    /\ clock' = clock + 1
    /\ UNCHANGED <<env, keyState, initCalls, issued, ret>>

\* --------------------------------------------------------- verifySignedProof
\* Variant: the verifier serialises the payload with its keys sorted.
VerifyMessage_SortedKeys(proof) ==
    JSONStringify([proof.payload EXCEPT !.order = SortedOrder])

\* const message = JSON.stringify(proof.payload)
VerifyMessage(proof) == JSONStringify(proof.payload)

\* Variant: the verifier uses the application's own key, not the proof's.
VerifyKeyPem_ApplicationKey(proof) == publicKeyPem

\* crypto.createPublicKey(proof.publicKey): the key the proof carries.
VerifyKeyPem(proof) == proof.publicKey

\* Whether the body of the try block throws.
VerifyTryThrows(proof) == CreatePublicKeyThrows(VerifyKeyPem(proof))

\* Variant: the verifier also demands more than 100 commits.
VerifyTryValue_Threshold(proof) ==
    /\ EcdsaVerify(CreatePublicKey(VerifyKeyPem(proof)), VerifyMessage(proof),
                   BufferFromHex(proof.signature))
    /\ IsFinite(proof.payload.fields.commitCount)
    /\ proof.payload.fields.commitCount.v > 100

\* verify.verify(pubKey, proof.signature, 'hex')
VerifyTryValue(proof) ==
    EcdsaVerify(CreatePublicKey(VerifyKeyPem(proof)), VerifyMessage(proof),
                BufferFromHex(proof.signature))

\* Variant: no try/catch, an exception leaves the function.
VerifySignedProofOutcome_NoCatch(proof) ==
    IF VerifyTryThrows(proof)
    THEN Outcome("throw", "ERR_OSSL", FALSE)
    ELSE Outcome("return", "", VerifyTryValue(proof))

\* Variant: the result of verify.verify is dropped.
VerifySignedProofOutcome_IgnoresResult(proof) ==
    Outcome("return", "", ~VerifyTryThrows(proof))

\* try { ... return verify.verify(...) } catch { return false }
VerifySignedProofOutcome(proof) ==
    IF VerifyTryThrows(proof)
    THEN Outcome("return", "", FALSE)
    ELSE Outcome("return", "", VerifyTryValue(proof))

\* ------------------------------------------- the attestations a caller holds
AllKeyIds == 1..GeneratedId(MaxInitCalls - 1)

ReplaceField(proof, k, v) == [proof EXCEPT !.payload.fields[k] = v]

Timestamps == { Num(t) : t \in 0..(MaxClock + 1) } \cup { NaN }

\* Strings other than the one signed: another hex spelling of the same bytes,
\* no bytes at all, and other signatures a caller may hold.
SignatureReplacements(proof) ==
    LET b == BufferFromHex(proof.signature)
        other == ReplaceField(proof, "commitCount", Num(150)).payload
    IN  { HexText(b, TRUE, FALSE), HexText(b, FALSE, TRUE), EmptyString,
          BufferToHex(b \o b),
          BufferToHex(<< [b[1] EXCEPT !.digest = SignedMessage(other)] >>) }
        \cup { BufferToHex(<< [b[1] EXCEPT !.nonce = n] >>) : n \in Nonces }
        \cup { BufferToHex(<< [b[1] EXCEPT !.signer = f] >>) : f \in EnvKeyIds }

PublicKeyReplacements ==
    { PublicPem(i) : i \in AllKeyIds } \cup { PrivatePem(1) }
    \cup { GarbagePem, UnsetPem }

\* An attestation some other keypair signs for itself.
SelfSigned(f, commitCount) ==
    LET payload == BuildPayload(Alice, Num(1), commitCount, ValidSince, 0)
    IN  SignedProof(payload,
                    BufferToHex(EcdsaSign(PrivateKeyObject(f), SignedMessage(payload), 1)),
                    PublicPem(f))

VerifySignedProof(how, proof) ==
    /\ LET out == VerifySignedProofOutcome(proof)
       IN  ret' = Call("verifySignedProof", out.outcome, out.error, proof, out.bool,
                       UndefinedPem, how, NoFields)
    /\ UNCHANGED <<env, keyState, initCalls, clock, issued>>

\* What a caller can hand to verifySignedProof: the last attestation as it
\* was issued, with the keys of its payload in another order, or with one
\* field replaced by a different value ...
VerifyIssued ==
    /\ issued # NoProof
    /\ \/ VerifySignedProof("as-issued", issued)
       \/ VerifySignedProof("reorder", [issued EXCEPT !.payload.order = SortedOrder])

VerifyTampered ==
    /\ issued # NoProof
    /\ \/ \E v \in {Num(0), Num(150), NaN, Infinity} :
            /\ v # issued.payload.fields.commitCount
            /\ VerifySignedProof("commitCount", ReplaceField(issued, "commitCount", v))
       \/ \E v \in Sinces :
            /\ v # issued.payload.fields.since
            /\ VerifySignedProof("since", ReplaceField(issued, "since", v))
       \/ \E v \in Timestamps :
            /\ v # issued.payload.fields.timestamp
            /\ VerifySignedProof("timestamp", ReplaceField(issued, "timestamp", v))
       \/ \E h \in SignatureReplacements(issued) :
            /\ h # issued.signature
            /\ VerifySignedProof("signature", [issued EXCEPT !.signature = h])
       \/ \E pem \in PublicKeyReplacements :
            /\ pem # issued.publicKey
            /\ VerifySignedProof("publicKey", [issued EXCEPT !.publicKey = pem])

\* ... or an attestation another keypair signed for itself.
VerifySelfSigned ==
    \E f \in EnvKeyIds : VerifySignedProof("self-signed", SelfSigned(f, Num(0)))

\* ------------------------------------------------- index.ts: the backend
\* Proof requests in flight at once.
MaxPending == 2

\* The GitHub accounts that log in, and the access token of each.
Users == { GithubUser(Num(1), Alice), GithubUser(Num(2), Quoted) }
AccessTokenOf(u) == <<u.id.v>>

\* GitHub's reply to GET /user for a request it does not accept: a JSON
\* body with a message and neither id nor login.
ErrorBody == GithubUser(Undefined, <<>>)

\* The callbacks GitHub grants: the token of a user and that user's data.
GrantedLogins ==
    { CallbackInput(TRUE, TokenData(FALSE, AccessTokenOf(u)), u) : u \in Users }

\* Every way a callback goes: no code in the query; the token fetch or its
\* json() rejects; the token reply reports an error; it holds neither an
\* error nor an access_token, and GET /user with 'Bearer undefined' is
\* refused; the token is granted and GET /user rejects, or answers the user.
CallbackInputs ==
    { CallbackInput(FALSE, Rejected, Rejected),
      CallbackInput(TRUE, Rejected, Rejected),
      CallbackInput(TRUE, TokenData(TRUE, <<>>), Rejected),
      CallbackInput(TRUE, TokenData(FALSE, <<>>), ErrorBody),
      CallbackInput(TRUE, TokenData(FALSE, AccessTokenOf(GithubUser(Num(1), Alice))), Rejected) }
    \cup GrantedLogins

\* total_count of GitHub's search reply (absent in an error reply).
TotalCounts == { Undefined, Num(150) }

\* data.total_count || 0
CommitCountOf(total_count) ==
    IF total_count \in { Undefined, NaN, Num(0) } THEN Num(0) ELSE total_count

\* new Date(Date.now() - 100 days).toISOString().split('T')[0]: the instants
\* of the model lie within one UTC day.
SinceDate(now) == ValidSince

ProofRoute == "/api/stats/commits/proof"
CallbackRoute == "/auth/callback"
AuthUserRoute == "/auth/user"
ReposRoute == "/api/repos"
CommitsRoute == "/api/stats/commits"
PublicKeyRoute == "/api/public-key"

\* Variant: the server listens whether or not initializeKeypair completed.
ListensAfter_Always(outcome) == TRUE

\* initializeKeypair(); app.listen(...): an exception of initializeKeypair
\* ends the evaluation of index.ts, and app.listen is never reached.
ListensAfter(outcome) == outcome = "return"

StartServer ==
    /\ phase = "starting"
    /\ InitializeKeypair
    /\ phase' = IF ListensAfter(ret'.outcome) THEN "listening" ELSE "exited"
    /\ UNCHANGED <<sessions, pending, response, published, userApp>>

\* res.redirect(`${FRONTEND_URL}?error=...`), or res.redirect(FRONTEND_URL)
\* when errorParam is empty, in answer to the callback q.
Redirect(errorParam, q) ==
    HttpResponse(errorParam, NoProof, UndefinedPem, 302, CallbackRoute, <<q>>)

\* The error parameter of the redirect that answers the callback q: the
\* early returns and the catch of the handler, in the order it reaches them.
CallbackError(q) ==
    IF ~q.code THEN "no_code"
    ELSE IF q.tokenData = Rejected THEN "oauth_failed"
    ELSE IF q.tokenData.error THEN "token_error"
    ELSE IF q.userData = Rejected THEN "oauth_failed"
    ELSE ""

\* Variant: the access token is stored as soon as it is known, before the
\* user is fetched.
CallbackSession_TokenFirst(session, q) ==
    IF CallbackError(q) = ""
    THEN SessionData(q.tokenData.access_token, <<GithubUser(q.userData.id, q.userData.login)>>)
    ELSE IF q.code /\ q.tokenData # Rejected /\ ~q.tokenData.error
    THEN SessionData(q.tokenData.access_token, session.githubUser)
    ELSE session

\* req.session after the callback q: accessToken and githubUser are assigned
\* only past every early return and every await, whatever they then hold.
CallbackSession(session, q) ==
    IF CallbackError(q) = ""
    THEN SessionData(q.tokenData.access_token, <<GithubUser(q.userData.id, q.userData.login)>>)
    ELSE session

\* GET /auth/callback on session s.
AuthCallback(s, q) ==
    /\ phase = "listening"
    /\ sessions' = [sessions EXCEPT ![s] = CallbackSession(sessions[s], q)]
    /\ response' = Redirect(CallbackError(q), q)
    /\ UNCHANGED <<moduleState, phase, pending, published, userApp>>

\* POST /auth/logout: req.session.destroy.
Logout(s) ==
    /\ phase = "listening"
    /\ sessions[s] # EmptySession
    /\ sessions' = [sessions EXCEPT ![s] = EmptySession]
    /\ UNCHANGED <<moduleState, phase, pending, response, published, userApp>>

\* if (!req.session.accessToken || !req.session.githubUser)
Unauthenticated(session) == session.accessToken = <<>> \/ session.githubUser = <<>>

\* Variant: the handler keeps no user of its own and signs for the user of
\* the session that logged in last.
RequestUser_LastLogin(r) ==
    LET with == { s \in SessionIds : sessions[s].githubUser # <<>> }
    IN  IF with = {} THEN r.found.githubUser[1]
        ELSE sessions[CHOOSE s \in with : \A t \in with : t <= s].githubUser[1]

\* const { login: username, id: userId } = req.session.githubUser
RequestUser(r) == GithubUser(r.userId, r.username)

\* A request on session s that found the given session data and (where the
\* handler awaits GitHub) was given the reply data.
SessionRequest(s, session, data) == ProofRequest(<<>>, Undefined, <<>>, s, session, data)

\* GET /api/stats/commits/proof up to the await of GitHub's reply.
ProofHandlerStart(s) ==
    /\ phase = "listening"
    /\ LET session == sessions[s]
       IN  IF Unauthenticated(session)
           THEN /\ response' = HttpResponse("Not authenticated", NoProof, UndefinedPem, 401,
                                            ProofRoute,
                                            <<SessionRequest(s, session, NoReply)>>)
                /\ UNCHANGED pending
           ELSE /\ Cardinality(pending) < MaxPending
                /\ pending' = pending \cup
                       { ProofRequest(session.githubUser[1].login, session.githubUser[1].id,
                                      SinceDate(clock), s, session, NoReply) }
                /\ UNCHANGED response
    /\ UNCHANGED <<moduleState, phase, sessions, published, userApp>>

\* The request r once await response.json() has settled with data.
Replied(r, data) == ProofRequest(r.username, r.userId, r.since, r.sid, r.found, data)

\* GET /api/stats/commits/proof from GitHub's reply on: fetch or json()
\* rejects, and the catch answers 500 ...
ProofHandlerFails(r) ==
    /\ r \in pending
    /\ pending' = pending \ {r}
    /\ response' = HttpResponse("Failed to generate proof", NoProof, UndefinedPem, 500,
                                ProofRoute, <<Replied(r, Rejected)>>)
    /\ UNCHANGED <<moduleState, phase, sessions, published, userApp>>

\* ... or the reply arrives and the handler signs and answers.
ProofHandlerFinish(r) ==
    /\ r \in pending
    /\ pending' = pending \ {r}
    /\ \E total_count \in TotalCounts :
         /\ SignCommitStats(RequestUser(r).login, RequestUser(r).id,
                            CommitCountOf(total_count), r.since)
         /\ IF ret'.outcome = "throw"
            THEN /\ response' = HttpResponse("Failed to generate proof", NoProof,
                                             UndefinedPem, 500, ProofRoute,
                                             <<Replied(r, total_count)>>)
                 /\ UNCHANGED published
            ELSE /\ response' = HttpResponse("", ret'.proof, UndefinedPem, 200, ProofRoute,
                                             <<Replied(r, total_count)>>)
                 /\ published' = published \cup { ret'.proof.publicKey }
    /\ UNCHANGED <<phase, sessions, userApp>>

\* Variant: GET /auth/user answers every session.
AuthUserRejects_Never(session) == FALSE

\* if (!req.session.githubUser)
AuthUserRejects(session) == session.githubUser = <<>>

\* if (!req.session.accessToken)
ReposRejects(session) == session.accessToken = <<>>

\* GET /auth/user
AuthUserHandler(s) ==
    /\ phase = "listening"
    /\ LET session == sessions[s]
       IN  response' =
             IF AuthUserRejects(session)
             THEN HttpResponse("Not authenticated", NoProof, UndefinedPem, 401, AuthUserRoute,
                               <<SessionRequest(s, session, NoReply)>>)
             ELSE HttpResponse("", NoProof, UndefinedPem, 200, AuthUserRoute,
                               <<SessionRequest(s, session, NoReply)>>)
    /\ UNCHANGED <<moduleState, phase, sessions, pending, published, userApp>>

\* GET /api/repos: the guard, and the answer once GitHub's reply has settled.
ReposHandler(s) ==
    /\ phase = "listening"
    /\ LET session == sessions[s]
       IN  IF ReposRejects(session)
           THEN response' = HttpResponse("Not authenticated", NoProof, UndefinedPem, 401,
                                         ReposRoute, <<SessionRequest(s, session, NoReply)>>)
           ELSE \/ response' = HttpResponse("", NoProof, UndefinedPem, 200, ReposRoute,
                                            <<SessionRequest(s, session, Undefined)>>)
                \/ response' = HttpResponse("Failed to fetch repos", NoProof, UndefinedPem,
                                            500, ReposRoute,
                                            <<SessionRequest(s, session, Rejected)>>)
    /\ UNCHANGED <<moduleState, phase, sessions, pending, published, userApp>>

\* GET /api/stats/commits: the guard, and the answer once GitHub's reply has
\* settled (the body of a 200 answer holds data.total_count || 0).
CommitsHandler(s) ==
    /\ phase = "listening"
    /\ LET session == sessions[s]
       IN  IF Unauthenticated(session)
           THEN response' = HttpResponse("Not authenticated", NoProof, UndefinedPem, 401,
                                         CommitsRoute, <<SessionRequest(s, session, NoReply)>>)
           ELSE \/ \E total_count \in TotalCounts :
                     response' = HttpResponse("", NoProof, UndefinedPem, 200, CommitsRoute,
                                              <<SessionRequest(s, session, total_count)>>)
                \/ response' = HttpResponse("Failed to fetch commit stats", NoProof,
                                            UndefinedPem, 500, CommitsRoute,
                                            <<SessionRequest(s, session, Rejected)>>)
    /\ UNCHANGED <<moduleState, phase, sessions, pending, published, userApp>>

\* GET /api/public-key
PublicKeyHandler ==
    /\ phase = "listening"
    /\ GetPublicKey
    /\ response' = HttpResponse("", NoProof, ret'.pem, 200, PublicKeyRoute, NoRequest)
    /\ published' = published \cup { ret'.pem }
    /\ UNCHANGED <<phase, sessions, pending, userApp>>

\* ------------------------------------------------------------- the user app
\* noir.execute({ commits }) with commits = proof.payload.commitCount: the
\* input map, as the set of its (name, value) entries.
CircuitInputs(proof) == { <<"commits", proof.payload.fields.commitCount>> }

\* handleGenerateProof from the arrival of the response on: with res.ok the
\* witness is computed and the attestation kept, otherwise the error is set.
HandleGenerateProof ==
    /\ response.route = ProofRoute
    /\ IF response.status = 200
       THEN /\ circuitInputs' = CircuitInputs(response.proof)
            /\ signedProof' = response.proof
            /\ UNCHANGED error
       ELSE /\ error' = "Failed to generate proof"
            /\ UNCHANGED <<signedProof, circuitInputs>>
    /\ UNCHANGED <<server, jobCard, keyStore, appState>>

\* The browser session of the user app.
UserAppSession == 1

\* The backend process and the sessions of its clients.
ServerInit ==
    /\ env \in EnvConfigs
    /\ privateKey = UndefinedKey
    /\ publicKey = UndefinedKey
    /\ publicKeyPem = UndefinedPem
    /\ initCalls = 0
    /\ clock = 0
    /\ issued = NoProof
    /\ ret = NoCall
    /\ ProcessState("starting")

ServerNext ==
    \/ StartServer
    \/ \E s \in SessionIds : \E q \in GrantedLogins : AuthCallback(s, q)
    \/ \E s \in SessionIds : Logout(s)
    \/ \E s \in SessionIds : ProofHandlerStart(s)
    \/ \E r \in pending : ProofHandlerFails(r)
    \/ \E r \in pending : ProofHandlerFinish(r)
    \/ PublicKeyHandler

ServerSpec == ServerInit /\ [][ServerNext]_vars

\* The user app of one browser and the backend (with a generated keypair)
\* that serves it.
UserAppInit ==
    /\ ServerInit
    /\ env = Environment(UnsetPem, UnsetPem)

UserAppNext ==
    \/ StartServer
    \/ \E q \in GrantedLogins : AuthCallback(UserAppSession, q)
    \/ Logout(UserAppSession)
    \/ ProofHandlerStart(UserAppSession)
    \/ \E r \in pending : ProofHandlerFails(r)
    \/ \E r \in pending : ProofHandlerFinish(r)
    \/ HandleGenerateProof

UserAppSpec == UserAppInit /\ [][UserAppNext]_vars

\* The backend (with a generated keypair) and the life of the session of
\* one browser: callbacks that go every way, logouts, and the routes that
\* look at the session.
AuthNext ==
    \/ StartServer
    \/ \E q \in CallbackInputs : AuthCallback(UserAppSession, q)
    \/ Logout(UserAppSession)
    \/ AuthUserHandler(UserAppSession)
    \/ ReposHandler(UserAppSession)
    \/ CommitsHandler(UserAppSession)
    \/ ProofHandlerStart(UserAppSession)
    \/ \E r \in pending : ProofHandlerFails(r)
    \/ \E r \in pending : ProofHandlerFinish(r)

AuthSpec == UserAppInit /\ [][AuthNext]_vars

\* ------------------------------------------- the user app, step by step
\* The bytes a proof is made of, the proofs backend.generateProof returns
\* and their public inputs.
SampleBytes == {0, 10, 16, 255}
ProofBytes == { <<b>> : b \in SampleBytes } \cup { <<b, c>> : b, c \in SampleBytes }
PublicInputs == { <<>>, <<"0x96">> }
ZkProofs == { ProofData(b, i) : b \in ProofBytes, i \in PublicInputs }

\* What await fetch(`${API_URL}/api/stats/commits/proof`) gives the app: a
\* rejection, or the backend's answer 401, 500 or 200 with an attestation.
ProofReplies ==
    { HttpResponse("Not authenticated", NoProof, UndefinedPem, 401, ProofRoute, NoRequest),
      HttpResponse("Failed to generate proof", NoProof, UndefinedPem, 500, ProofRoute,
                   NoRequest) }
    \cup { HttpResponse("", SelfSigned(GeneratedId(0), c), UndefinedPem, 200, ProofRoute,
                        NoRequest) : c \in { Num(150), Num(0) } }

\* fetchUser, called once when App mounts: user is set when GET /auth/user
\* answers ok; finally setLoading(false).
FetchUser ==
    /\ loading
    /\ loading' = FALSE
    /\ \/ user' \in { <<u>> : u \in Users }
       \/ UNCHANGED user
    /\ UNCHANGED <<server, jobCard, signedProof, error, circuitInputs, keyStore, zkProof,
                   generatingProof, generation>>

\* handleLogout from the resolution of its fetch on (the Logout button is
\* rendered while user is set): user and signedProof are cleared.
HandleLogout ==
    /\ user # <<>>
    /\ user' = <<>>
    /\ signedProof' = NoProof
    /\ UNCHANGED <<server, jobCard, error, circuitInputs, keyStore, loading, zkProof,
                   generatingProof, generation>>

\* Variant: generatingProof is reset on the paths that set an error only.
GeneratingAfter_ErrorPathsOnly(ok) == ok

\* finally { setGeneratingProof(false) }: generatingProof once the handler
\* has ended, on the path that set the proofs (ok) or on another one.
GeneratingAfter(ok) == FALSE

\* handleGenerateProof up to its first await (the button is rendered while
\* user is set and disabled while generatingProof).
GenerateProofStart ==
    /\ user # <<>>
    /\ ~generatingProof
    /\ generation.pc = "idle"
    /\ generatingProof' = TRUE
    /\ generation' = Generation("fetching", NoProof)
    /\ UNCHANGED <<server, jobCard, signedProof, error, circuitInputs, keyStore, loading, user,
                   zkProof>>

\* The handler ends on the catch: setError, and finally.
GenerateProofCaught ==
    /\ error' = "Failed to generate signed proof"
    /\ generatingProof' = GeneratingAfter(FALSE)
    /\ generation' = NoGeneration
    /\ UNCHANGED <<signedProof, circuitInputs, zkProof>>

\* await fetch(...) settles: it rejects, or res is not ok, or res.json()
\* gives the attestation and noir.execute is called with its commitCount.
GenerateProofFetched ==
    /\ generation.pc = "fetching"
    /\ \/ GenerateProofCaught
       \/ \E res \in ProofReplies :
            IF res.status = 200
            THEN /\ generation' = Generation("executing", res.proof)
                 /\ circuitInputs' = CircuitInputs(res.proof)
                 /\ UNCHANGED <<signedProof, error, zkProof, generatingProof>>
            ELSE /\ error' = "Failed to generate proof"
                 /\ generatingProof' = GeneratingAfter(FALSE)
                 /\ generation' = NoGeneration
                 /\ UNCHANGED <<signedProof, circuitInputs, zkProof>>
    /\ UNCHANGED <<server, jobCard, keyStore, loading, user>>

\* await noir.execute({ commits }) settles: it throws (a constraint of the
\* circuit fails), or gives the witness and backend.generateProof is called.
GenerateProofExecuted ==
    /\ generation.pc = "executing"
    /\ \/ GenerateProofCaught
       \/ /\ generation' = Generation("proving", generation.attestation)
          /\ UNCHANGED <<signedProof, error, circuitInputs, zkProof, generatingProof>>
    /\ UNCHANGED <<server, jobCard, keyStore, loading, user>>

\* await backend.generateProof(witness) settles: it throws, or gives zk and
\* setSignedProof(proof), setZkProof(zk) run; finally.
GenerateProofProved ==
    /\ generation.pc = "proving"
    /\ \/ GenerateProofCaught
       \/ \E zk \in ZkProofs :
            /\ signedProof' = generation.attestation
            /\ zkProof' = <<zk>>
            /\ generatingProof' = GeneratingAfter(TRUE)
            /\ generation' = NoGeneration
            /\ UNCHANGED <<error, circuitInputs>>
    /\ UNCHANGED <<server, jobCard, keyStore, loading, user>>

AppInit ==
    /\ Init
    /\ env = Environment(UnsetPem, UnsetPem)

AppNext ==
    \/ FetchUser
    \/ HandleLogout
    \/ GenerateProofStart
    \/ GenerateProofFetched
    \/ GenerateProofExecuted
    \/ GenerateProofProved

AppSpec == AppInit /\ [][AppNext]_vars

\* The event loop runs the continuation of every await that settles, and
\* every fetch, noir.execute and backend.generateProof settles.
AppFairSpec ==
    /\ AppSpec
    /\ WF_vars(GenerateProofFetched)
    /\ WF_vars(GenerateProofExecuted)
    /\ WF_vars(GenerateProofProved)

\* ------------------------------------------------------- the proof file
HexDigits == <<"0", "1", "2", "3", "4", "5", "6", "7", "8", "9", "a", "b", "c", "d", "e", "f">>
UpperHexDigits == <<"A", "B", "C", "D", "E", "F">>

\* The value of a character as a hex digit, -1 when it is none.
HexDigitValue(c) ==
    IF \E i \in 1..16 : HexDigits[i] = c
    THEN (CHOOSE i \in 1..16 : HexDigits[i] = c) - 1
    ELSE IF \E i \in 1..6 : UpperHexDigits[i] = c
    THEN (CHOOSE i \in 1..6 : UpperHexDigits[i] = c) + 9
    ELSE -1

\* b.toString(16) for a byte: one digit below 16, two from 16 on.
ToString16(b) ==
    IF b < 16 THEN <<HexDigits[b + 1]>>
    ELSE <<HexDigits[(b \div 16) + 1], HexDigits[(b % 16) + 1]>>

\* Variant: the digits are not padded.
PadStart_None(t) == t

\* .padStart(2, '0')
PadStart(t) == IF Len(t) < 2 THEN <<"0">> \o t ELSE t

RECURSIVE Join(_)
\* .join('')
Join(texts) == IF texts = <<>> THEN <<>> ELSE Head(texts) \o Join(Tail(texts))

\* Array.from(zkProof.proof).map(b => b.toString(16).padStart(2, '0')).join('')
ProofHex(bytes) == Join([i \in 1..Len(bytes) |-> PadStart(ToString16(bytes[i]))])

\* The file handleDownloadZkProof writes for zk, as JSON.parse reads it back:
\* JSON.stringify(proofData, null, 2) of a string of hex digits and an array
\* of strings that need no escape.
DownloadOf(zk) ==
    ProofFile(JsonField("string", ProofHex(zk.proof)), JsonField("array", zk.publicInputs), TRUE)

\* handleDownloadZkProof
HandleDownloadZkProof ==
    /\ zkProof # <<>>
    /\ download' = <<DownloadOf(zkProof[1])>>
    /\ UNCHANGED <<server, signedProof, error, circuitInputs, keyStore, appState, status,
                   upload>>

\* text.match(/.{2}/g): the consecutive pairs of characters (a last odd
\* character is left out); null, here the empty sequence, when there is none.
MatchPairs(text) == [i \in 1..(Len(text) \div 2) |-> <<text[2 * i - 1], text[2 * i]>>]

\* parseInt(b, 16) of a pair: the digits up to the first character that is
\* no hex digit; NaN, here the empty sequence, when the first is none.
ParseInt16(b) ==
    IF HexDigitValue(b[1]) < 0 THEN <<>>
    ELSE IF HexDigitValue(b[2]) < 0 THEN <<HexDigitValue(b[1])>>
    ELSE <<16 * HexDigitValue(b[1]) + HexDigitValue(b[2])>>

\* Uint8Array.from: NaN becomes 0, a number is taken modulo 256.
ToUint8(x) == IF x = <<>> THEN 0 ELSE x[1] % 256

\* Uint8Array.from(proofData.proof.match(/.{2}/g)!.map(b => parseInt(b, 16)))
ProofBytesOf(text) ==
    [i \in 1..Len(MatchPairs(text)) |-> ToUint8(ParseInt16(MatchPairs(text)[i]))]

\* ------------------------------------------------ the applicant app: JobCard
\* Whether a property of proofData is truthy (the numbers of the files
\* explored are not 0).
Truthy(field) ==
    CASE field.kind = "absent" -> FALSE
      [] field.kind = "string" -> field.text # <<>>
      [] OTHER -> TRUE

\* The files an applicant chooses: the file the user app wrote, and files
\* that are no JSON, lack a property, hold an empty or a non-string proof,
\* a proof of one character, of odd length, in upper case, or with
\* characters that are no hex digits.
Files ==
    { download[i] : i \in 1..Len(download) }
    \cup
    { ProofFile(Absent, Absent, FALSE),
      ProofFile(Absent, JsonField("array", <<"0x96">>), TRUE),
      ProofFile(JsonField("string", <<"0", "a">>), Absent, TRUE),
      ProofFile(JsonField("string", <<>>), JsonField("array", <<"0x96">>), TRUE),
      ProofFile(JsonField("number", <<>>), JsonField("array", <<"0x96">>), TRUE),
      ProofFile(JsonField("string", <<"a">>), JsonField("array", <<"0x96">>), TRUE),
      ProofFile(JsonField("string", <<"0", "a", "f">>), JsonField("array", <<"0x96">>), TRUE),
      ProofFile(JsonField("string", <<"F", "F">>), JsonField("array", <<>>), TRUE),
      ProofFile(JsonField("string", <<"z", "1", "1", "g">>), JsonField("array", <<"0x96">>),
                TRUE) }

\* handleFileChange up to its first await (the Submit Proof button is
\* rendered while status is idle): setStatus('verifying').
HandleFileChange(file) ==
    /\ status = "idle"
    /\ status' = "verifying"
    /\ upload' = Upload("reading", file, <<>>, "")
    /\ UNCHANGED <<server, signedProof, error, circuitInputs, keyStore, appState, download>>

\* Whether the handler, given the text of file, reaches backend.verifyProof:
\* JSON.parse does not throw, both properties are truthy, and match is a
\* function that finds a pair (else a TypeError is thrown and caught).
ReachesVerifyProof(file) ==
    /\ file.parses
    /\ Truthy(file.proof) /\ Truthy(file.publicInputs)
    /\ file.proof.kind = "string"
    /\ MatchPairs(file.proof.text) # <<>>

\* await file.text() settles: the handler ends with status rejected (the
\* promise rejects, the structure check fails, or an exception is caught),
\* or it calls backend.verifyProof with the decoded proof.
FileRead ==
    /\ upload.pc = "reading"
    /\ \/ /\ status' = "rejected"
          /\ upload' = Upload("done", upload.file, <<>>, "")
       \/ /\ ReachesVerifyProof(upload.file)
          /\ upload' = Upload("verifying", upload.file,
                               <<ProofData(ProofBytesOf(upload.file.proof.text),
                                           upload.file.publicInputs.text)>>, "")
          /\ UNCHANGED status
    /\ UNCHANGED <<server, signedProof, error, circuitInputs, keyStore, appState, download>>

\* How backend.verifyProof may settle for p: a proof the prover produced
\* verifies, another does not; either call may throw.
VerifyProofVerdicts(p) == IF p \in ZkProofs THEN {"true", "throws"} ELSE {"false", "throws"}

\* Variant: an exception of verifyProof is not caught.
StatusAfter_NoCatch(verdict) ==
    IF verdict = "true" THEN "accepted"
    ELSE IF verdict = "false" THEN "rejected" ELSE "verifying"

\* Variant: a proof that does not verify is accepted as well.
StatusAfter_AcceptsFalse(verdict) == IF verdict = "throws" THEN "rejected" ELSE "accepted"

\* if (await backend.verifyProof(...)) setStatus('accepted') else
\* setStatus('rejected'); catch { setStatus('rejected') }
StatusAfter(verdict) == IF verdict = "true" THEN "accepted" ELSE "rejected"

\* await backend.verifyProof(proofForVerification) settles.
ProofVerified ==
    /\ upload.pc = "verifying"
    /\ \E verdict \in VerifyProofVerdicts(upload.proofForVerification[1]) :
         /\ status' = StatusAfter(verdict)
         /\ upload' = Upload("done", upload.file, upload.proofForVerification, verdict)
    /\ UNCHANGED <<server, signedProof, error, circuitInputs, keyStore, appState, download>>

\* handleReset (the Try again button is rendered while status is rejected).
HandleReset ==
    /\ status = "rejected"
    /\ status' = "idle"
    /\ UNCHANGED <<server, signedProof, error, circuitInputs, keyStore, appState, download,
                   upload>>

\* A user app that holds a generated proof, and the JobCard of an applicant.
JobCardInit ==
    /\ env = Environment(UnsetPem, UnsetPem)
    /\ privateKey = UndefinedKey
    /\ publicKey = UndefinedKey
    /\ publicKeyPem = UndefinedPem
    /\ initCalls = 0
    /\ clock = 0
    /\ issued = NoProof
    /\ ret = NoCall
    /\ phase = "none"
    /\ sessions = [s \in SessionIds |-> EmptySession]
    /\ pending = {}
    /\ response = NoResponse
    /\ published = {}
    /\ signedProof = SelfSigned(GeneratedId(0), Num(150))
    /\ error = ""
    /\ circuitInputs = CircuitInputs(signedProof)
    /\ localStorage = <<>>
    /\ keyCalls = [c \in Callers |-> NoKeyCall]
    /\ loading = FALSE
    /\ user = <<GithubUser(Num(1), Alice)>>
    /\ zkProof \in { <<zk>> : zk \in ZkProofs }
    /\ generatingProof = FALSE
    /\ generation = NoGeneration
    /\ download = <<>>
    /\ status = "idle"
    /\ upload = NoUpload

JobCardNext ==
    \/ HandleDownloadZkProof
    \/ \E file \in Files : HandleFileChange(file)
    \/ FileRead
    \/ ProofVerified
    \/ HandleReset

JobCardSpec == JobCardInit /\ [][JobCardNext]_vars

\* The event loop runs the continuation of every await that settles, and
\* file.text() and backend.verifyProof settle.
JobCardFairSpec ==
    /\ JobCardSpec
    /\ WF_vars(FileRead)
    /\ WF_vars(ProofVerified)

\* ------------------------------------------------- the browser key store
\* generateKeypair: crypto.subtle.generateKey returns a keypair no call has
\* returned before (numbered after the one in storage, the latest so far).
GenerateKeypair == IF localStorage = <<>> THEN 1 ELSE localStorage[1].publicKey.id + 1

\* exportKey(key, format)
ExportKey(id, format) == Base64Key(id, format)

\* importKey(base64Key, format, usage)
ImportKey(base64Key, type) == KeyObject(type, base64Key.id)

\* getOrCreateKeypair up to its first await: localStorage.getItem, and the
\* branch on if (stored).
GetOrCreateKeypairStart(c) ==
    /\ keyCalls[c].pc = "idle"
    /\ keyCalls' = [keyCalls EXCEPT ![c] =
                       KeyCall(IF localStorage # <<>> THEN "importing" ELSE "generating",
                               localStorage, keyCalls[c].result)]
    /\ UNCHANGED <<server, jobCard, signedProof, error, circuitInputs, appState, localStorage>>

\* The stored branch once both importKey calls have resolved.
GetOrCreateKeypairImported(c) ==
    /\ keyCalls[c].pc = "importing"
    /\ LET parsed == keyCalls[c].stored[1]
       IN  keyCalls' = [keyCalls EXCEPT ![c] =
                          KeyCall("idle", keyCalls[c].stored,
                                  <<KeypairResult(ImportKey(parsed.publicKey, "public"),
                                                  ImportKey(parsed.privateKey, "private"),
                                                  parsed.publicKey)>>)]
    /\ UNCHANGED <<server, jobCard, signedProof, error, circuitInputs, appState, localStorage>>

\* The other branch once generateKeypair and both exportKey calls have
\* resolved: localStorage.setItem and the return.
GetOrCreateKeypairGenerated(c) ==
    /\ keyCalls[c].pc = "generating"
    /\ LET id == GenerateKeypair
           publicKeyBase64 == ExportKey(id, "spki")
           privateKeyBase64 == ExportKey(id, "pkcs8")
       IN  /\ localStorage' = <<StoredKeypair(publicKeyBase64, privateKeyBase64)>>
           /\ keyCalls' = [keyCalls EXCEPT ![c] =
                              KeyCall("idle", keyCalls[c].stored,
                                      <<KeypairResult(KeyObject("public", id),
                                                      KeyObject("private", id),
                                                      publicKeyBase64)>>)]
    /\ UNCHANGED <<server, jobCard, signedProof, error, circuitInputs, appState>>

KeyStoreNext ==
    \/ \E c \in Callers : GetOrCreateKeypairStart(c)
    \/ \E c \in Callers : GetOrCreateKeypairImported(c)
    \/ \E c \in Callers : GetOrCreateKeypairGenerated(c)

KeyStoreSpec == AppInit /\ [][KeyStoreNext]_vars

\* -------------------------------------------------------------------- system
\* crypto.ts on its own: its exported functions called in any order.
Next ==
    \/ InitializeKeypair /\ UNCHANGED processState
    \/ GetPublicKey /\ UNCHANGED processState
    \/ \E a \in SignInputs :
         /\ SignCommitStats(a.username, a.userId, a.commitCount, a.since)
         /\ UNCHANGED processState
    \/ VerifyIssued /\ UNCHANGED processState
    \/ VerifyTampered /\ UNCHANGED processState
    \/ VerifySelfSigned /\ UNCHANGED processState
    \/ Tick /\ UNCHANGED processState

Spec == Init /\ [][Next]_vars

\* ==================================================================== claims
Verified == ret.op = "verifySignedProof"
Signed == ret.op = "signCommitStats"

\* The ECDSA signature term the last attestation carries.
IssuedSignature == BufferFromHex(issued.signature)[1]

\* The last attestation verifies as it was issued.
IssuedVerifies == issued # NoProof /\ VerifySignedProofOutcome(issued).bool

\* C1: with a generated keypair, an attestation signCommitStats returned for a
\* count >= 0 (0 and 2^31 - 1 included) verifies when it is handed back
\* unchanged to verifySignedProof.
C1_RoundTrip ==
    ( /\ Verified
      /\ ret.how = "as-issued"
      /\ ~EnvironmentPath
      /\ IsFinite(ret.proof.payload.fields.commitCount)
      /\ ret.proof.payload.fields.commitCount.v >= 0 )
    => (ret.outcome = "return" /\ ret.bool = TRUE)

C1_Witness ==
    /\ Verified
    /\ ret.how = "as-issued"
    /\ ~EnvironmentPath
    /\ ret.proof.payload.fields.commitCount = Num(2147483647)
    /\ ret.bool = TRUE

\* C2 as stated: an attestation with commitCount, since, timestamp or signature
\* replaced by any different value is rejected.
C2_AnyReplacementRejected ==
    (Verified /\ ret.how \in {"commitCount", "since", "timestamp", "signature"})
    => ret.bool = FALSE

\* Bytes that are a signature of the keypair the attestation names as its
\* public key, over the message that was signed.
ValidSignatureFor(bytes, proof) ==
    /\ Len(bytes) = 1
    /\ bytes[1].signer = proof.publicKey.id
    /\ bytes[1].digest = IssuedSignature.digest

\* C2 amended: a replaced since is rejected; a replaced commitCount or
\* timestamp is rejected unless old and new value are both non-finite (both
\* serialise as null); a replaced signature is rejected unless the new text
\* decodes to a signature over the same payload by the key the attestation
\* carries (the same hex digits in upper case or followed by other characters,
\* or a second signature of that key).
C2_TamperRejected ==
    Verified =>
      /\ ret.how = "since" => ret.bool = FALSE
      /\ ( /\ ret.how \in {"commitCount", "timestamp"}
           /\ ~( /\ ~IsFinite(ret.proof.payload.fields[ret.how])
                 /\ ~IsFinite(issued.payload.fields[ret.how]) ) )
         => ret.bool = FALSE
      /\ ( /\ ret.how = "signature"
           /\ ~ValidSignatureFor(BufferFromHex(ret.proof.signature), issued) )
         => ret.bool = FALSE

C2_Witness ==
    /\ Verified
    /\ ret.how = "timestamp"
    /\ IssuedVerifies
    /\ ret.bool = FALSE

\* C3: an attestation signed by keypair A and presented with the public key
\* of another keypair B is rejected.
C3_WrongKeyRejected ==
    ( /\ Verified
      /\ ret.how = "publicKey"
      /\ ret.proof.publicKey.label = "PUBLIC KEY"
      /\ ret.proof.publicKey.id # IssuedSignature.signer )
    => ret.bool = FALSE

C3_Witness ==
    /\ Verified
    /\ ret.how = "publicKey"
    /\ ret.proof.publicKey.label = "PUBLIC KEY"
    /\ ret.proof.publicKey.id # IssuedSignature.signer
    /\ IssuedVerifies
    /\ ret.bool = FALSE

C5_SecondInitializeRejected ==
    [][ ( /\ initCalls' = initCalls + 1
          /\ privateKey # UndefinedKey
          /\ publicKeyPem # UndefinedPem )
        => ( /\ ret'.outcome = "throw"
             /\ ret'.error = "AlreadyInitializedError"
             /\ UNCHANGED keyState ) ]_vars

\* A text of the form YYYY-MM-DD that names a day of the calendar.
IsDigit(c) == \E d \in 0..9 : DigitChar(d) = c
DigitValue(c) == CHOOSE d \in 0..9 : DigitChar(d) = c
IsLeapYear(y) == (y % 4 = 0 /\ y % 100 # 0) \/ y % 400 = 0
DaysInMonth(y, m) ==
    CASE m \in {1, 3, 5, 7, 8, 10, 12} -> 31
      [] m \in {4, 6, 9, 11} -> 30
      [] m = 2 -> (IF IsLeapYear(y) THEN 29 ELSE 28)
      [] OTHER -> 0
IsValidCalendarDate(s) ==
    /\ Len(s) = 10
    /\ s[5] = "-"
    /\ s[8] = "-"
    /\ \A i \in {1, 2, 3, 4, 6, 7, 9, 10} : IsDigit(s[i])
    /\ LET y == 1000 * DigitValue(s[1]) + 100 * DigitValue(s[2])
                + 10 * DigitValue(s[3]) + DigitValue(s[4])
           m == 10 * DigitValue(s[6]) + DigitValue(s[7])
           d == 10 * DigitValue(s[9]) + DigitValue(s[10])
       IN  d \in 1..DaysInMonth(y, m)

\* C6: once initialised, signCommitStats with a negative commitCount or with
\* a since that is no calendar date fails with InvalidInputError.
C6_InvalidInputRejected ==
    ( /\ Signed
      /\ privateKey # UndefinedKey
      /\ \/ (IsFinite(ret.args.commitCount) /\ ret.args.commitCount.v < 0)
         \/ ~IsValidCalendarDate(ret.args.since) )
    => (ret.outcome = "throw" /\ ret.error = "InvalidInputError")

\* C7: once initializeKeypair has loaded the keypair from the environment,
\* every attestation signCommitStats returns verifies when it is created (the
\* key it carries is the public counterpart of the signing key).
C7_EnvironmentKeypairVerifies ==
    ( /\ Signed
      /\ ret.outcome = "return"
      /\ EnvironmentPath
      /\ publicKeyPem # UndefinedPem )
    => VerifySignedProofOutcome(ret.proof).bool = TRUE

\* C8: a payload with the field values of the signed one yields, in
\* verifySignedProof, the message signCommitStats signed, whatever the order
\* of its keys.
C8_EncodingIgnoresKeyOrder ==
    (Verified /\ ret.how = "reorder")
    => /\ ret.proof.payload.fields = issued.payload.fields
       /\ VerifyMessage(ret.proof) = SignedMessage(issued.payload)

\* C9: verifySignedProof returns a boolean and never throws, and the boolean
\* is FALSE when the public key does not parse or the signature text holds
\* no signature.
C9_VerifyNeverThrows ==
    Verified =>
      /\ ret.outcome = "return"
      /\ ret.error = ""
      /\ ret.bool \in BOOLEAN
      /\ ( \/ ret.proof.publicKey.label \notin {"PUBLIC KEY", "PRIVATE KEY"}
           \/ Len(BufferFromHex(ret.proof.signature)) # 1 )
         => ret.bool = FALSE

C9_Witness ==
    /\ Verified
    /\ ret.how = "publicKey"
    /\ ret.proof.publicKey = GarbagePem
    /\ IssuedVerifies
    /\ ret.outcome = "return"
    /\ ret.bool = FALSE

\* C10: an attestation that carries the public key of its signer verifies
\* whatever keypair the process holds by then (another one, or none), and so
\* does an attestation another keypair signed for itself.
C10_VerifyIgnoresKeyState ==
    Verified =>
      /\ ( /\ ret.how = "as-issued"
           /\ ret.proof.publicKey = PublicPem(IssuedSignature.signer) )
         => ret.bool = TRUE
      /\ ret.how = "self-signed" => ret.bool = TRUE

C10_Witness ==
    /\ Verified
    /\ ret.how = "as-issued"
    /\ ret.proof.publicKey = PublicPem(IssuedSignature.signer)
    /\ privateKey.id # IssuedSignature.signer
    /\ ret.bool = TRUE

\* C11: in the backend process, every public key sent out, by GET
\* /api/public-key (getPublicKey) or as publicKey of an attestation, is one
\* and the same value, the publicKeyPem the process holds; so getPublicKey
\* returns what signCommitStats embeds, call after call.
C11_OnePublicKeyPublished ==
    /\ published \subseteq { publicKeyPem }
    /\ (phase = "listening" /\ ret.op = "getPublicKey") => ret.pem = publicKeyPem
    /\ (phase = "listening" /\ ret.op = "signCommitStats" /\ ret.outcome = "return")
          => ret.proof.publicKey = publicKeyPem
    /\ response.route = PublicKeyRoute => response.pem \in published
    /\ (response.route = ProofRoute /\ response.status = 200)
          => response.proof.publicKey \in published

C11_Witness ==
    /\ response.route = PublicKeyRoute
    /\ issued # NoProof
    /\ issued.publicKey = response.pem
    /\ EnvironmentPath
    /\ published # {}

\* C12: in the backend process initializeKeypair is called exactly once and
\* has completed whenever the server listens; a handler calls signCommitStats
\* or getPublicKey only while the server listens, hence never before that
\* completion; if initializeKeypair throws, the process never listens and
\* answers no request.
C12_InitializedBeforeListening ==
    /\ initCalls <= 1
    /\ phase = "listening" =>
          /\ initCalls = 1
          /\ privateKey # UndefinedKey
          /\ publicKey # UndefinedKey
          /\ publicKeyPem # UndefinedPem
    /\ ret.op \in {"signCommitStats", "getPublicKey"} => phase = "listening"
    /\ phase \in {"starting", "exited"} => (response = NoResponse /\ pending = {})
    /\ phase = "exited" => (ret.op = "initializeKeypair" /\ ret.outcome = "throw")

C12_Witness ==
    /\ phase = "listening"
    /\ ret.op = "signCommitStats"
    /\ ret.outcome = "return"
    /\ EnvironmentPath
    /\ response.status = 200

\* C13: a step in which signCommitStats, getPublicKey or verifySignedProof
\* is called leaves privateKey, publicKey and publicKeyPem as they were, so
\* the key material stays what the last initializeKeypair installed.
C13_CallsLeaveKeyState ==
    [][ ret'.op \in {"signCommitStats", "getPublicKey", "verifySignedProof"}
        => UNCHANGED keyState ]_vars

C13_Witness ==
    /\ ret.op = "getPublicKey"
    /\ initCalls = 1
    /\ issued # NoProof
    /\ ret.pem = publicKeyPem
    /\ publicKeyPem = env.pub
    /\ publicKeyPem # ExportSpkiPem(publicKey)

\* C14: when signCommitStats has returned an attestation and is called again
\* with the same arguments at the same clock instant, the second call returns
\* too, its payload equals the first one's, each of the two attestations
\* verifies on its own, and the call changes no state of the module but the
\* value it returns (no counter is kept between the calls).
C14_IdempotentIssuance ==
    [][ ( /\ ret.op = "signCommitStats"
          /\ ret.outcome = "return"
          /\ ret'.op = "signCommitStats"
          /\ ret'.args = ret.args
          /\ clock' = clock
          /\ ret' # ret )
        => ( /\ ret'.outcome = "return"
             /\ ret'.proof.payload = ret.proof.payload
             /\ VerifySignedProofOutcome(ret.proof).bool
             /\ VerifySignedProofOutcome(ret'.proof).bool
             /\ UNCHANGED <<env, keyState, initCalls, clock>> ) ]_vars

\* The user app holds the first attestation and the response carries the
\* second: same payload, another signature, both valid.
C14_Witness ==
    /\ signedProof # NoProof
    /\ response.route = ProofRoute
    /\ response.status = 200
    /\ response.proof # signedProof
    /\ response.proof.payload = signedProof.payload
    /\ VerifySignedProofOutcome(signedProof).bool
    /\ VerifySignedProofOutcome(response.proof).bool

\* C15: of two attestations signCommitStats issues one after the other, the
\* later one carries the strictly greater timestamp.
C15_TimestampStrictlyIncreases ==
    [][ (issued # NoProof /\ issued' # issued)
        => issued'.payload.fields.timestamp.v > issued.payload.fields.timestamp.v ]_vars

\* C16: initializeKeypair does not complete on the environment branch holding
\* a key that is not on P-256.
C16_EnvironmentKeysOnP256 ==
    ( /\ ret.op = "initializeKeypair"
      /\ ret.outcome = "return"
      /\ EnvironmentPath )
    => ( /\ CurveOf(privateKey.id) = "prime256v1"
         /\ CurveOf(publicKey.id) = "prime256v1" )

\* C17: neither getPublicKey nor an attestation of signCommitStats hands out
\* the private key.
C17_PrivateKeyNeverReturned ==
    /\ ret.op = "getPublicKey" => ret.pem.label # "PRIVATE KEY"
    /\ (ret.op = "signCommitStats" /\ ret.outcome = "return")
          => ret.proof.publicKey.label # "PRIVATE KEY"

\* An attestation whose signature text decodes to one signature, made by the
\* keypair of the key it carries over the JSON text of its payload.
CorrectlySigned(proof) ==
    LET bytes == BufferFromHex(proof.signature)
    IN  /\ proof.publicKey.label \in {"PUBLIC KEY", "PRIVATE KEY"}
        /\ Len(bytes) = 1
        /\ bytes[1].signer = proof.publicKey.id
        /\ bytes[1].digest = JSONStringify(proof.payload)

\* C18: verifySignedProof returns TRUE exactly for the correctly signed
\* attestations, whatever their commitCount (0 and other counts below a
\* threshold included) and however old their timestamp.
C18_NoPolicy ==
    Verified => (ret.bool <=> CorrectlySigned(ret.proof))

C18_Witness ==
    /\ Verified
    /\ ret.how = "as-issued"
    /\ CorrectlySigned(ret.proof)
    /\ ret.proof.payload.fields.commitCount = Num(0)
    /\ ret.proof.payload.fields.timestamp.v < clock
    /\ ret.bool = TRUE

\* C19: the input map the user app gives to the circuit holds the
\* attestation's commitCount, its signature and its public key.
C19_CircuitInputsBindSignature ==
    circuitInputs # {}
    => /\ \E x \in circuitInputs :
            x[1] = "commits" /\ x[2] = signedProof.payload.fields.commitCount
       /\ \E x \in circuitInputs : x[1] = "signature" /\ x[2] = signedProof.signature
       /\ \E x \in circuitInputs : x[1] = "publicKey" /\ x[2] = signedProof.publicKey

\* C20: GET /api/stats/commits/proof answers 401, with no attestation, exactly
\* when the session the request came with lacks the access token or the
\* GitHub user; and the attestation of a 200 answer names the login and id of
\* the user that session held when the request arrived, whatever other
\* sessions did while the request was in flight.
C20_ProofForSessionUser ==
    (response.route = ProofRoute) =>
      LET r == response.request[1]
      IN  /\ response.status \in {200, 401, 500}
          /\ response.status = 401 <=> Unauthenticated(r.found)
          /\ response.status # 200 => response.proof = NoProof
          /\ response.status = 200 =>
                /\ response.proof.payload.fields.username = r.found.githubUser[1].login
                /\ response.proof.payload.fields.userId = r.found.githubUser[1].id
                /\ response.proof = issued

\* A 200 answer for a session that has changed hands since, while a request
\* of another session and another user is in flight.
C20_Witness ==
    /\ response.route = ProofRoute
    /\ response.status = 200
    /\ sessions[response.request[1].sid] # response.request[1].found
    /\ sessions[response.request[1].sid] # EmptySession
    /\ \E q \in pending :
          /\ q.sid # response.request[1].sid
          /\ q.username # response.request[1].username

\* C21: the attestation of every 200 answer of GET /api/stats/commits/proof
\* carries the total_count GitHub's search reply held, and a request whose
\* lookup was rejected or whose reply holds no count is answered without an
\* attestation.
C21_CountIsTheLookupResult ==
    (response.route = ProofRoute /\ response.status # 401) =>
      LET data == response.request[1].data
      IN  /\ response.status = 200 =>
                /\ IsFinite(data)
                /\ response.proof.payload.fields.commitCount = data
          /\ ~IsFinite(data) => response.proof = NoProof

\* C23: in every session githubUser is set only if accessToken is set, so
\* that a session GET /auth/user answers is also let through by the guards
\* of GET /api/repos, GET /api/stats/commits and GET /api/stats/commits/proof.
C23_UserOnlyWithToken ==
    \A s \in SessionIds :
        /\ sessions[s].githubUser # <<>> => sessions[s].accessToken # <<>>
        /\ ~AuthUserRejects(sessions[s])
             => ~ReposRejects(sessions[s]) /\ ~Unauthenticated(sessions[s])

SessionRoutes == { AuthUserRoute, ReposRoute, CommitsRoute, ProofRoute }

\* In this step the backend answers a request that arrived on session s in
\* this step (not one that was awaiting GitHub's reply).
AnswersArrival(s) ==
    /\ pending' = pending
    /\ response' # response
    /\ response'.route \in SessionRoutes
    /\ response'.request[1].sid = s

C22_StoredKeypairPersists ==
    [][ /\ localStorage # <<>> => localStorage' = localStorage
        /\ \A c \in Callers :
              keyCalls'[c].result # <<>>
              => keyCalls'[c].result[1].publicKeyBase64 = localStorage'[1].publicKey
      ]_vars

\* C26: in every state of the user app zkProof is non-null only if
\* signedProof is non-null.
C26_ZkProofHasAttestation ==
    zkProof # <<>> => signedProof # NoProof

\* C27: every handleGenerateProof that has set generatingProof eventually
\* sets it back to false, however its awaits settle; and signedProof and
\* zkProof are set only by the step in which backend.generateProof has
\* given its proof, to the attestation fetched and the proof given.
C27_GenerationEnds ==
    /\ generatingProof ~> ~generatingProof
    /\ [][ ((signedProof' # signedProof /\ signedProof' # NoProof) \/ zkProof' # zkProof)
            => /\ generation.pc = "proving"
               /\ generation'.pc = "idle"
               /\ signedProof' = generation.attestation
               /\ zkProof' # <<>>
               /\ error' = error
          ]_vars

\* A generation has ended with an error and generatingProof reset.
C27_Witness ==
    /\ ~generatingProof
    /\ generation.pc = "idle"
    /\ error = "Failed to generate signed proof"
    /\ circuitInputs # {}
    /\ zkProof = <<>>

\* The last handleFileChange ended with the file parsed, both properties
\* truthy, the proof decoded, and verifyProof returning true.
VerifiedTrue ==
    /\ upload.pc = "done"
    /\ upload.file.parses
    /\ upload.file.proof.kind = "string" /\ upload.file.proof.text # <<>>
    /\ Truthy(upload.file.publicInputs)
    /\ upload.verdict = "true"

\* C28 as stated: status is accepted only when the file parsed with a
\* non-empty proof and non-empty publicInputs and verifyProof returned true,
\* and every other end of handleFileChange sets status to rejected.
C28_AcceptedOnlyNonEmptyInputs ==
    upload.pc = "done" =>
      /\ status = "accepted" => VerifiedTrue /\ upload.file.publicInputs.text # <<>>
      /\ ~(VerifiedTrue /\ upload.file.publicInputs.text # <<>>) => status # "accepted"

\* C28, amended: status is accepted exactly when the file parsed with a
\* non-empty string proof and a truthy publicInputs (an empty array
\* included) and verifyProof returned true; every other end of
\* handleFileChange sets status to rejected, which only Try again leaves.
C28_AcceptedOnlyVerified ==
    /\ upload.pc = "done" =>
          /\ status = "accepted" <=> VerifiedTrue
          /\ ~VerifiedTrue => status \in {"rejected", "idle"}
    /\ upload.pc # "done" => status # "accepted"

\* A downloaded proof with no public inputs was accepted.
C28_Witness ==
    /\ status = "accepted"
    /\ VerifiedTrue
    /\ download # <<>>
    /\ upload.file = download[1]
    /\ upload.file.publicInputs.text = <<>>

\* C29: status changes only from idle to verifying (a file is chosen), from
\* verifying to accepted or rejected, and from rejected to idle; accepted
\* is never left; the step in which verifyProof settles leaves verifying,
\* and a card that is verifying eventually is not.
C29_StatusMachine ==
    /\ [][ /\ status' # status =>
                  <<status, status'>> \in { <<"idle", "verifying">>,
                                            <<"verifying", "accepted">>,
                                            <<"verifying", "rejected">>,
                                            <<"rejected", "idle">> }
           /\ (upload.pc = "verifying" /\ upload'.pc # "verifying")
                  => status' \in {"accepted", "rejected"}
         ]_vars
    /\ (status = "verifying") ~> (status \in {"accepted", "rejected"})

\* verifyProof threw, the card showed rejected, and Try again was pressed.
C29_Witness ==
    /\ upload.pc = "done"
    /\ upload.verdict = "throws"
    /\ status = "idle"

\* C30: the file handleDownloadZkProof writes for zkProof holds two lower
\* case hex digits per byte, handleFileChange decodes it back to the bytes
\* of zkProof.proof, and when the applicant chooses that file the ProofData
\* given to backend.verifyProof is zkProof, publicInputs included.
C30_ProofFileRoundTrip ==
    /\ download # <<>> =>
          /\ Len(download[1].proof.text) = 2 * Len(zkProof[1].proof)
          /\ \A i \in 1..Len(download[1].proof.text) :
                \E d \in 1..16 : download[1].proof.text[i] = HexDigits[d]
          /\ ReachesVerifyProof(download[1])
          /\ ProofBytesOf(download[1].proof.text) = zkProof[1].proof
    /\ (download # <<>> /\ upload.file = download[1] /\ upload.proofForVerification # <<>>)
          => upload.proofForVerification[1] = zkProof[1]

\* A proof with bytes below 16 went through the file.
C30_Witness ==
    /\ download # <<>>
    /\ upload.file = download[1]
    /\ upload.proofForVerification = zkProof
    /\ zkProof[1].proof = <<0, 10>>
    /\ zkProof[1].publicInputs # <<>>

====
